---- MODULE Spec2Model ----
(***************************************************************************)
(* Model of the encrypted credential store of OTP-pyAuth                   *)
(* (src/database.py) together with the add-account path that feeds it      *)
(* (src/add_account_dialog.py, src/authenticator_app.py) and the secret    *)
(* codec it relies on (src/totp_generator.py).                             *)
(*                                                                         *)
(* Text values (names, issuers, secrets) are sequences of character codes, *)
(* so that upper-casing, filtering, stripping and byte-wise comparison are *)
(* computed rather than assumed.  A Fernet token is modelled symbolically: *)
(* a cell [k, p, ok] is the text p sealed under key k; ok is FALSE once    *)
(* the stored token was altered, and k = NoKey marks text stored in clear. *)
(* The text that is stored for a cell is also built byte by byte (Base64   *)
(* of the Base64 Fernet token), with the decoders of the standard library  *)
(* followed step by step; the cipher and the digests are not computed.     *)
(*                                                                         *)
(* The TOTP engine (clean, validate, generate, time remaining, progress)   *)
(* and the widgets that show its results are modelled over a clock counted *)
(* in fractions of a second.                                               *)
(*                                                                         *)
(* The store's operations are also modelled step by step, each on its own *)
(* sqlite3 connection, for two threads; the add-account dialog, the token  *)
(* widgets and the update thread of the window are modelled with the       *)
(* position of each thread.                                                *)
(*                                                                         *)
(* Specifications: Spec, SpecEnv and SpecList for the store, SpecSeal and  *)
(* SpecTamper for the stored text, SpecCodec for the secret codec, SpecUrl *)
(* for otpauth URLs, SpecTotp for the engine, SpecConc for two threads on  *)
(* the store, SpecApp for the application's add and delete paths, SpecGui  *)
(* and SpecGuiFair for the window's threads.                               *)
(***************************************************************************)
EXTENDS Integers, Sequences, FiniteSets, TLC

(* ------------------------------ bounds -------------------------------- *)
MaxId == 2
MaxKeys == 2
MaxClock == 1
MaxListId == 3
MaxShortLen == 3
MaxLongLen == 9
MaxTime == 31
MaxIv == 1
SubSecond == 2
MaxParams == 2
MaxOps == 3
MaxWidgets == 2
MaxQueue == 2

(* ------------------------- program constants -------------------------- *)
MinSecretLen == 8
Period == 30
Digits == 6

NoKey == 0

(* ------------------------------ inputs -------------------------------- *)
Bravo == <<66, 114, 97, 118, 111>>
alpha == <<97, 108, 112, 104, 97>>
Charlie == <<67, 104, 97, 114, 108, 105, 101>>
PaddedAlpha == <<32, 97, 108, 112, 104, 97, 32>>
Empty == <<>>
Google == <<71, 111, 111, 103, 108, 101>>

\* "jbsw y3dp", "mfrg-gzdf", "abc"
SpacedSecret == <<106, 98, 115, 119, 32, 121, 51, 100, 112>>
DashedSecret == <<109, 102, 114, 103, 45, 103, 122, 100, 102>>
ShortSecret == <<97, 98, 99>>

\* "jbsw y3dp ehpk 3pxp" and its cleaned form "JBSWY3DPEHPK3PXP"
ExampleSecret == <<106, 98, 115, 119, 32, 121, 51, 100, 112, 32,
                   101, 104, 112, 107, 32, 51, 112, 120, 112>>
ExampleCleaned == <<74, 66, 83, 87, 89, 51, 68, 80, 69, 72, 80, 75, 51, 80, 88, 80>>

\* The strings over an alphabet with a length between lo and hi.
Strings(alphabet, lo, hi) == UNION {[1..n -> alphabet] : n \in lo..hi}

\* 'a', 'B', '2', '1', ' ': every short string, the empty one included.
ShortAlphabet == {97, 66, 50, 49, 32}
\* 'A', '7', '-': the strings of at least the minimum length.
LongAlphabet == {65, 55, 45}

CodecInputs ==
    Strings(ShortAlphabet, 0, MaxShortLen)
        \cup Strings(LongAlphabet, MinSecretLen, MaxLongLen)
        \cup {ExampleSecret}

NameInputs == {Bravo, PaddedAlpha, Empty}
SecretInputs == {SpacedSecret, ShortSecret}
IssuerInputs == {Empty, Google}

\* The names of the listing-order example.
ListNames == {Bravo, alpha, Charlie}

Range(f) == {f[i] : i \in DOMAIN f}

(* --------------------------- secret codec ----------------------------- *)
Upper(c) == IF c >= 97 /\ c <= 122 THEN c - 32 ELSE c

IsBase32Char(c) == (c >= 65 /\ c <= 90) \/ (c >= 50 /\ c <= 55)

\* Variant: the filter is applied to the text as typed.
clean_secret_as_typed(secret) == SelectSeq(secret, IsBase32Char)

\* TOTPGenerator.clean_secret
clean_secret(secret) ==
    SelectSeq([i \in 1..Len(secret) |-> Upper(secret[i])], IsBase32Char)

\* Variant: a secret of the minimum length is too short.
validate_secret_strict(secret) ==
    LET cleaned_secret == clean_secret(secret) IN
    IF Len(cleaned_secret) <= MinSecretLen THEN [valid |-> FALSE, message |-> "too_short"]
    ELSE IF \E i \in 1..Len(cleaned_secret) : ~IsBase32Char(cleaned_secret[i])
         THEN [valid |-> FALSE, message |-> "invalid_chars"]
    ELSE [valid |-> TRUE, message |-> "valid"]

\* TOTPGenerator.validate_secret; pyotp.TOTP(cleaned_secret) only stores the
\* secret and does not raise.
validate_secret(secret) ==
    LET cleaned_secret == clean_secret(secret) IN
    IF Len(cleaned_secret) < MinSecretLen THEN [valid |-> FALSE, message |-> "too_short"]
    ELSE IF \E i \in 1..Len(cleaned_secret) : ~IsBase32Char(cleaned_secret[i])
         THEN [valid |-> FALSE, message |-> "invalid_chars"]
    ELSE [valid |-> TRUE, message |-> "valid"]

IsSpace(c) == c \in {9, 10, 11, 12, 13, 32}

RECURSIVE lstrip(_)
lstrip(s) == IF s # <<>> /\ IsSpace(Head(s)) THEN lstrip(Tail(s)) ELSE s

RECURSIVE rstrip(_)
rstrip(s) == IF s # <<>> /\ IsSpace(s[Len(s)]) THEN rstrip(SubSeq(s, 1, Len(s) - 1)) ELSE s

strip(s) == rstrip(lstrip(s))

(* ----------------------------- TOTP engine ---------------------------- *)
\* "JBSWY3DPE", "JBSWY3DPEH"
NineSecret == <<74, 66, 83, 87, 89, 51, 68, 80, 69>>
TenSecret == <<74, 66, 83, 87, 89, 51, 68, 80, 69, 72>>

\* "ERROR"
ERROR == <<69, 82, 82, 79, 82>>

\* Time is counted in ticks of 1/SubSecond second; int(time.time()) drops the
\* fraction of the second.
IntTime(now) == now \div SubSecond

Pow2(n) == IF n = 0 THEN 1 ELSE IF n = 1 THEN 2 ELSE IF n = 2 THEN 4 ELSE IF n = 3 THEN 8
           ELSE IF n = 4 THEN 16 ELSE IF n = 5 THEN 32 ELSE IF n = 6 THEN 64 ELSE 128

B32Value(c) == IF c >= 65 /\ c <= 90 THEN c - 65 ELSE c - 24

\* base64.b32decode(s, casefold=True) of the standard library: s is a whole
\* number of 8-character quanta, '=' (61) only as trailing padding of 0, 1, 3,
\* 4 or 6 characters; the 5-bit values are concatenated and cut into bytes.
b32decode(s) ==
    LET upper == [i \in 1..Len(s) |-> Upper(s[i])]
        padchars == Cardinality({i \in 1..Len(s) : \A j \in i..Len(s) : s[j] = 61})
        n == Len(s) - padchars
        Bit(i) == (B32Value(upper[((i - 1) \div 5) + 1]) \div Pow2(4 - ((i - 1) % 5))) % 2
        nbytes == (5 * n) \div 8
        Byte(j) == Bit(8*j - 7) * 128 + Bit(8*j - 6) * 64 + Bit(8*j - 5) * 32
                     + Bit(8*j - 4) * 16 + Bit(8*j - 3) * 8 + Bit(8*j - 2) * 4
                     + Bit(8*j - 1) * 2 + Bit(8*j)
    IN IF \/ Len(s) % 8 # 0
          \/ \E i \in 1..n : ~IsBase32Char(upper[i])
          \/ padchars \notin {0, 1, 3, 4, 6}
       THEN [ok |-> FALSE, bytes |-> <<>>]
       ELSE [ok |-> TRUE, bytes |-> [j \in 1..nbytes |-> Byte(j)]]

\* pyotp OTP.byte_secret: the secret is padded with '=' to a multiple of 8.
byte_secret(secret) ==
    LET missing_padding == Len(secret) % 8
        padding == IF missing_padding # 0 THEN 8 - missing_padding ELSE 0
    IN b32decode(secret \o [i \in 1..padding |-> 61])

RECURSIVE SumSeq(_)
SumSeq(bs) == IF bs = <<>> THEN 0 ELSE Head(bs) + SumSeq(Tail(bs))

\* pyotp OTP.generate_otp: the 31-bit dynamic truncation of
\* HMAC-SHA1(key, counter).  The digest is not computed; a fixed function of
\* the key bytes and the counter stands for it.
hotp(key_bytes, counter) ==
    (SumSeq(key_bytes) * 7919 + Len(key_bytes) * 104729 + counter * 611953 + 4242) % 2147483647

RECURSIVE Decimal(_)
Decimal(n) == IF n < 10 THEN <<48 + n>> ELSE Append(Decimal(n \div 10), 48 + (n % 10))

\* format(n, "0{width}d")
ZeroPad(n, width) ==
    LET d == Decimal(n) IN
    IF Len(d) >= width THEN d ELSE [i \in 1..(width - Len(d)) |-> 48] \o d

Pow10(n) == IF n = 0 THEN 1 ELSE IF n = 1 THEN 10 ELSE IF n = 2 THEN 100 ELSE IF n = 3 THEN 1000
            ELSE IF n = 4 THEN 10000 ELSE IF n = 5 THEN 100000 ELSE 1000000

\* Variant: the counter is the number of whole seconds.
totp_now_per_second(secret, now) ==
    LET k == byte_secret(secret) IN
    IF ~k.ok THEN [ok |-> FALSE, token |-> <<>>]
    ELSE [ok |-> TRUE,
          token |-> ZeroPad(hotp(k.bytes, IntTime(now)) % Pow10(Digits), Digits)]

\* pyotp TOTP.now() at time now: the counter is the number of whole periods.
totp_now(secret, now) ==
    LET k == byte_secret(secret) IN
    IF ~k.ok THEN [ok |-> FALSE, token |-> <<>>]
    ELSE [ok |-> TRUE,
          token |-> ZeroPad(hotp(k.bytes, IntTime(now) \div Period) % Pow10(Digits), Digits)]

RECURSIVE ParseInt(_)
ParseInt(d) == IF d = <<>> THEN 0 ELSE ParseInt(SubSeq(d, 1, Len(d) - 1)) * 10 + (d[Len(d)] - 48)

\* Variant: the secret is handed to pyotp as typed.
generate_token_uncleaned(secret, now) ==
    LET totp == totp_now(secret, now) IN
    IF ~totp.ok THEN ERROR ELSE ZeroPad(ParseInt(totp.token), 6)

\* TOTPGenerator.generate_token at time now
generate_token(secret, now) ==
    LET cleaned_secret == clean_secret(secret)
        totp == totp_now(cleaned_secret, now)
    IN IF ~totp.ok THEN ERROR ELSE ZeroPad(ParseInt(totp.token), 6)

(* ---------------------------- otpauth URLs ---------------------------- *)
\* "otpauth://" and "otpauth://totp/"
OtpauthScheme == <<111, 116, 112, 97, 117, 116, 104, 58, 47, 47>>
TotpPrefix == <<111, 116, 112, 97, 117, 116, 104, 58, 47, 47, 116, 111, 116, 112, 47>>

\* "secret", "issuer"
SecretKey == <<115, 101, 99, 114, 101, 116>>
IssuerKey == <<105, 115, 115, 117, 101, 114>>

\* str.startswith
startswith(s, prefix) ==
    Len(prefix) <= Len(s) /\ SubSeq(s, 1, Len(prefix)) = prefix

\* sub in s
contains(s, sub) ==
    \E i \in 1..(Len(s) - Len(sub) + 1) : SubSeq(s, i, i + Len(sub) - 1) = sub

\* s.replace(old, ""): every occurrence of old, found from left to right
\* without overlap, is removed.
RECURSIVE remove_all(_, _)
remove_all(s, old) ==
    IF s = <<>> THEN <<>>
    ELSE IF startswith(s, old) THEN remove_all(SubSeq(s, Len(old) + 1, Len(s)), old)
    ELSE <<Head(s)>> \o remove_all(Tail(s), old)

\* s without a leading occurrence of old, the removal of a prefix.
remove_leading(s, old) ==
    IF startswith(s, old) THEN SubSeq(s, Len(old) + 1, Len(s)) ELSE s

\* The positions of character sep in s, and the n-th of them.
SepPositions(s, sep) == {i \in 1..Len(s) : s[i] = sep}

NthSep(s, sep, n) ==
    CHOOSE i \in SepPositions(s, sep) :
        Cardinality({j \in SepPositions(s, sep) : j < i}) = n - 1

\* s.split(sep)
split(s, sep) ==
    LET count == Cardinality(SepPositions(s, sep))
        from(k) == IF k = 1 THEN 1 ELSE NthSep(s, sep, k - 1) + 1
        to(k) == IF k = count + 1 THEN Len(s) ELSE NthSep(s, sep, k) - 1
    IN [k \in 1..(count + 1) |-> SubSeq(s, from(k), to(k))]

\* s.split(sep, 1) of a text that holds sep
split_once(s, sep) ==
    LET i == NthSep(s, sep, 1) IN
    [head |-> SubSeq(s, 1, i - 1), tail |-> SubSeq(s, i + 1, Len(s))]

\* The dictionary built from the parameters that hold '=' (61): a later
\* parameter replaces an earlier one of the same key.
params_of(params_part) ==
    LET parts == split(params_part, 38)
        pairs == [k \in 1..Len(parts) |->
                     IF 61 \in Range(parts[k])
                     THEN <<split_once(parts[k], 61)>> ELSE <<>>]
        keys == {pairs[k][1].head : k \in {j \in 1..Len(parts) : pairs[j] # <<>>}}
        last(key) == CHOOSE k \in 1..Len(parts) :
                        /\ pairs[k] # <<>> /\ pairs[k][1].head = key
                        /\ \A j \in (k + 1)..Len(parts) :
                              pairs[j] = <<>> \/ pairs[j][1].head # key
    IN [key \in keys |-> pairs[last(key)][1].tail]

\* TOTPGenerator.parse_otpauth_url: record is <<>> for None and holds the
\* dictionary otherwise; '?' is 63.
parse_otpauth_url(url) ==
    IF ~startswith(url, OtpauthScheme) THEN [record |-> <<>>, message |-> "not_otpauth"]
    ELSE IF ~contains(url, TotpPrefix) THEN [record |-> <<>>, message |-> "not_totp"]
    ELSE LET rest == remove_all(url, TotpPrefix) IN
         IF 63 \notin Range(rest) THEN [record |-> <<>>, message |-> "malformed"]
         ELSE LET parts == split_once(rest, 63)
                  params == params_of(parts.tail)
              IN IF SecretKey \notin DOMAIN params
                 THEN [record |-> <<>>, message |-> "no_secret"]
                 ELSE [record |-> <<[name |-> parts.head,
                                     secret |-> params[SecretKey],
                                     issuer |-> IF IssuerKey \in DOMAIN params
                                                THEN params[IssuerKey] ELSE <<>>]>>,
                       message |-> "parsed"]

\* Variant: the seconds elapsed are subtracted modulo the period.
get_time_remaining_modulo(now) == (Period - IntTime(now)) % Period

\* TOTPGenerator.get_time_remaining at time now
get_time_remaining(now) == Period - (IntTime(now) % Period)

\* Variant: the share of the window that is left.
get_progress_percentage_left(now) ==
    LET remaining == get_time_remaining(now) IN
    [num |-> remaining * 100, den |-> Period]

\* TOTPGenerator.get_progress_percentage at time now; the float returned is
\* the quotient num/den.
get_progress_percentage(now) ==
    LET remaining == get_time_remaining(now) IN
    [num |-> (Period - remaining) * 100, den |-> Period]

IsDigits(token) == token # <<>> /\ \A i \in 1..Len(token) : token[i] >= 48 /\ token[i] <= 57

\* TokenWidget.update_token: what the widget of an account shows after a
\* refresh that reads the clock at now.
update_token(secret, now) ==
    LET token == generate_token(secret, now)
        remaining == get_time_remaining(now)
    IN [token_label |-> IF token # ERROR /\ Len(token) = 6 /\ IsDigits(token)
                        THEN SubSeq(token, 1, 3) \o <<32>> \o SubSeq(token, 4, 6)
                        ELSE ERROR,
        status_label |-> IF token # ERROR /\ Len(token) = 6 /\ IsDigits(token)
                         THEN "active" ELSE "error",
        progress |-> [num |-> 30 - remaining, den |-> 30],
        time_label |-> remaining]

\* AuthenticatorApp.refresh_tokens: every widget is updated in turn.
refresh_tokens(token_widgets, now) ==
    [i \in 1..Len(token_widgets) |-> update_token(token_widgets[i], now)]

(* ------------------------- encryption service ------------------------- *)
\* The stored cell [k, p, ok] stands for the text encrypt_secret_text returns
\* for p under k, as long as ok holds.
encrypt_secret(k, secret) == [k |-> k, p |-> secret, ok |-> TRUE]

Decryptable(k, cell) == cell.ok /\ cell.k # NoKey /\ cell.k = k

decrypt_secret(k, cell) == cell.p

(* ----------------------- the envelope, byte by byte ------------------- *)
NonNegative(v) == v >= 0

\* str.encode(): UTF-8, one byte below 128 and two bytes from 128 to 2047.
utf8_encode(text) ==
    SelectSeq([i \in 1..(2 * Len(text)) |->
                  LET c == text[(i + 1) \div 2] IN
                  IF c < 128 THEN (IF i % 2 = 1 THEN c ELSE -1)
                  ELSE IF i % 2 = 1 THEN 192 + (c \div 64) ELSE 128 + (c % 64)],
              NonNegative)

\* bytes.decode() of well-formed UTF-8 of the same range.
utf8_decode(bs) ==
    SelectSeq([i \in 1..Len(bs) |->
                  IF bs[i] < 128 THEN bs[i]
                  ELSE IF bs[i] >= 192 THEN (bs[i] - 192) * 64 + (bs[i + 1] - 128)
                  ELSE -1],
              NonNegative)

\* The Base64 alphabet: A-Z, a-z, 0-9, '+', '/'.
B64Char(v) ==
    IF v < 26 THEN 65 + v
    ELSE IF v < 52 THEN 97 + (v - 26)
    ELSE IF v < 62 THEN 48 + (v - 52)
    ELSE IF v = 62 THEN 43 ELSE 47

\* 64 for a character outside the alphabet.
B64Value(c) ==
    IF c >= 65 /\ c <= 90 THEN c - 65
    ELSE IF c >= 97 /\ c <= 122 THEN c - 97 + 26
    ELSE IF c >= 48 /\ c <= 57 THEN c - 48 + 52
    ELSE IF c = 43 THEN 62
    ELSE IF c = 47 THEN 63 ELSE 64

\* base64.b64encode: three bytes give four characters, '=' (61) fills the
\* last group.
b64encode(bs) ==
    LET n == Len(bs)
        Byte(i) == IF i <= n THEN bs[i] ELSE 0
        Char(i) ==
            LET g == (i - 1) \div 4
                q == (i - 1) % 4
                b1 == Byte(3*g + 1)
                b2 == Byte(3*g + 2)
                b3 == Byte(3*g + 3)
            IN IF q = 0 THEN B64Char(b1 \div 4)
               ELSE IF q = 1 THEN B64Char((b1 % 4) * 16 + (b2 \div 16))
               ELSE IF q = 2 THEN (IF 3*g + 2 > n THEN 61
                                   ELSE B64Char((b2 % 16) * 4 + (b3 \div 64)))
               ELSE (IF 3*g + 3 > n THEN 61 ELSE B64Char(b3 % 64))
    IN [i \in 1..(4 * ((n + 2) \div 3)) |-> Char(i)]

IsB64Data(c) == c # 61 /\ B64Value(c) < 64

\* binascii.a2b_base64 without strict mode: characters outside the alphabet
\* are skipped; the data ends at the '=' (61) that completes a group of four
\* (the first after three characters of a group, the second after two) or at
\* the end of the text, where no group may be open; the bits left over in
\* the last character are dropped.  ok is FALSE where binascii.Error is raised.
a2b_base64(s) ==
    LET quad_pos(i) == Cardinality({j \in 1..(i - 1) : IsB64Data(s[j])}) % 4
        pads(i) == Cardinality({j \in 1..i : s[j] = 61 /\ \A m \in j..i : ~IsB64Data(s[m])})
        done == {i \in 1..Len(s) :
                    s[i] = 61 /\ quad_pos(i) >= 2 /\ quad_pos(i) + pads(i) >= 4}
        stop == IF done = {} THEN Len(s) + 1
                ELSE CHOOSE i \in done : \A j \in done : i <= j
        v == SelectSeq([i \in 1..(stop - 1) |->
                           IF IsB64Data(s[i]) THEN B64Value(s[i]) ELSE -1], NonNegative)
        m == Len(v)
        nbytes == 3 * (m \div 4) + (IF m % 4 >= 2 THEN (m % 4) - 1 ELSE 0)
        Byte(j) ==
            LET g == 4 * ((j - 1) \div 3)
                r == (j - 1) % 3
            IN IF r = 0 THEN v[g + 1] * 4 + (v[g + 2] \div 16)
               ELSE IF r = 1 THEN (v[g + 2] % 16) * 16 + (v[g + 3] \div 4)
               ELSE (v[g + 3] % 4) * 64 + v[g + 4]
    IN IF done = {} /\ m % 4 # 0
       THEN [ok |-> FALSE, bytes |-> <<>>]
       ELSE [ok |-> TRUE, bytes |-> [j \in 1..nbytes |-> Byte(j)]]

\* base64.b64decode(s)
b64decode(s) == a2b_base64(s)

\* base64.urlsafe_b64encode / urlsafe_b64decode: '-' (45) for '+' (43) and
\* '_' (95) for '/' (47).
urlsafe_b64encode(bs) ==
    LET e == b64encode(bs) IN
    [i \in 1..Len(e) |-> IF e[i] = 43 THEN 45 ELSE IF e[i] = 47 THEN 95 ELSE e[i]]

urlsafe_b64decode(s) ==
    b64decode([i \in 1..Len(s) |-> IF s[i] = 45 THEN 43 ELSE IF s[i] = 95 THEN 47 ELSE s[i]])

\* The plaintexts the store is asked to seal: "JBSWY3DP" and
\* "JBSWY3DPEHPK3PXP".
PlainSecrets == {clean_secret(SpacedSecret), ExampleCleaned}

\* os.urandom(16) of one encryption, one value per seed.
IvBytes(iv) == [i \in 1..16 |-> (iv * 97 + i * 29) % 256]

\* PKCS7 padding to the AES block of 16 bytes.
pkcs7(data) ==
    LET pad == 16 - (Len(data) % 16) IN data \o [i \in 1..pad |-> pad]

\* The bytes of a Fernet token before its encoding: version 0x80, the time
\* in 8 bytes, the IV, the AES-CBC ciphertext and the HMAC-SHA256 tag.  The
\* cipher and the digest are not computed; fixed functions of the key and
\* the bytes stand for them.
fernet_raw(k, data, now, iv) ==
    LET padded == pkcs7(data)
        ivb == IvBytes(iv)
        ciphertext == [i \in 1..Len(padded) |->
                          (padded[i] + 131 * k + ivb[((i - 1) % 16) + 1] + 7 * i) % 256]
        body == <<128>> \o <<0, 0, 0, 0, 0, 0, 0, now % 256>> \o ivb \o ciphertext
        sum == SumSeq(body)
    IN body \o [i \in 1..32 |-> (sum + 59 * k + 13 * i) % 256]

\* Fernet(k).encrypt(data)
fernet_encrypt(k, data, now, iv) == urlsafe_b64encode(fernet_raw(k, data, now, iv))

\* Fernet(k).decrypt(token): the token is decoded, and it is accepted when it
\* has the version byte and the tag verifies, which holds for the bytes of a
\* token made under k and for no other bytes.
fernet_decrypt(k, token) ==
    LET decoded == urlsafe_b64decode(token)
        data == decoded.bytes
        made == {g \in PlainSecrets \X (0..MaxClock) \X (0..MaxIv) :
                    /\ Len(data) >= 25
                    /\ data[9] = g[2] % 256
                    /\ SubSeq(data, 10, 25) = IvBytes(g[3])
                    /\ fernet_raw(k, utf8_encode(g[1]), g[2], g[3]) = data}
    IN IF ~decoded.ok \/ data = <<>> \/ data[1] # 128 \/ Len(data) < 9 \/ made = {}
       THEN [outcome |-> "invalid_token", data |-> <<>>]
       ELSE [outcome |-> "ok", data |-> utf8_encode((CHOOSE g \in made : TRUE)[1])]

\* Database.encrypt_secret, as the text that is stored.
encrypt_secret_text(k, secret, now, iv) ==
    b64encode(fernet_encrypt(k, utf8_encode(secret), now, iv))

\* Variant: the stored text is handed to Fernet as it is.
decrypt_secret_text_undecoded(k, encrypted_secret) ==
    LET opened == fernet_decrypt(k, utf8_encode(encrypted_secret)) IN
    IF opened.outcome # "ok" THEN [outcome |-> opened.outcome, secret |-> <<>>]
    ELSE [outcome |-> "ok", secret |-> utf8_decode(opened.data)]

\* Database.decrypt_secret, from the text that is stored.
decrypt_secret_text(k, encrypted_secret) ==
    LET token == b64decode(utf8_encode(encrypted_secret)) IN
    IF ~token.ok THEN [outcome |-> "binascii_error", secret |-> <<>>]
    ELSE LET opened == fernet_decrypt(k, token.bytes) IN
         IF opened.outcome # "ok" THEN [outcome |-> opened.outcome, secret |-> <<>>]
         ELSE [outcome |-> "ok", secret |-> utf8_decode(opened.data)]

(* ------------------------------- state -------------------------------- *)
VARIABLES
    keyFile,        \* contents of key.key, NoKey when the file is absent
    key,            \* self.key of the live Database object, NoKey when none
    keysGenerated,  \* number of Fernet.generate_key() calls so far
    rows,           \* the accounts table
    seq,            \* sqlite_sequence entry of the accounts table
    clock,          \* wall clock, seconds
    lastCall,       \* the last operation, its arguments and its outcome
    keyRemoved,     \* history: the key file was removed at some point
    sessionKeys,    \* history: the keys loaded by the initializations so far
    issued,         \* history: the ids add_account returned, in order
    conns,          \* per thread: the sqlite3 connection of the operation in progress
    dbLock,         \* the thread whose connection holds the write lock, 0 when none
    commitLog,      \* history: the committed writes, in commit order
    tables,         \* history: the committed contents of the table so far
    appDelete,      \* AuthenticatorApp.delete_account in progress
    dialog_open,    \* self.dialog_open
    callers,        \* per source: where its call of add_account stands
    update_thread_running,  \* self.update_thread_running
    loop,           \* update_loop: its position, and the refreshes it
                    \* scheduled after the flag was cleared
    root,           \* the main window, "alive" or "destroyed"
    afterQueue,     \* refresh_tokens callbacks scheduled and not yet run
    widgets,        \* the token widgets created so far, "alive" or "destroyed"
    token_widgets,  \* self.token_widgets, as indices of widgets
    clearing        \* load_accounts in progress on the tray thread

storeVars == <<keyFile, key, keysGenerated, rows, seq, clock, lastCall,
               keyRemoved, sessionKeys, issued>>

dbVars == <<conns, dbLock, commitLog, tables>>

guiVars == <<dialog_open, callers, update_thread_running, loop, root,
             afterQueue, widgets, token_widgets, clearing>>

appVars == <<appDelete, guiVars>>

concVars == <<dbVars, appVars>>

vars == <<storeVars, concVars>>

\* The ways add_account is invoked: the Add button and the global hotkey run
\* it on the main thread, the tray menu item on the tray thread.
Sources == {"button", "hotkey", "tray"}

\* The window after load_accounts showed one account, the update thread
\* started.
GuiInit ==
    /\ dialog_open = FALSE
    /\ callers = [src \in Sources |-> "idle"]
    /\ update_thread_running = TRUE
    /\ loop = [pc |-> "test", late |-> 0]
    /\ root = "alive"
    /\ afterQueue = 0
    /\ widgets = <<"alive">>
    /\ token_widgets = {1}
    /\ clearing = "idle"

\* The threads that use the Database object.
Threads == {1, 2}

\* No operation in progress on a thread.
Idle == [pc |-> "idle", op |-> "none", id |-> 0, name |-> <<>>, secret |-> <<>>,
         issuer |-> <<>>, pending |-> <<>>, accounts |-> <<>>, n |-> 0, raised |-> 0]

\* The thread after an operation: n counts its operations, raised those that
\* raised; the threads start MaxOps operations in all.
Returned(c) == [Idle EXCEPT !.n = c.n, !.raised = c.raised]

\* No operation in progress on any thread.
ConcInit ==
    /\ conns = [t \in Threads |-> Idle]
    /\ dbLock = 0
    /\ commitLog = <<>>
    /\ tables = {{}}
    /\ appDelete = [pc |-> "idle", id |-> 0, seen |-> {}]
    /\ GuiInit

Call(op, outcome) ==
    [op |-> op, outcome |-> outcome, failed |-> FALSE, id |-> 0,
     name |-> <<>>, secret |-> <<>>, issuer |-> <<>>, at |-> 0,
     fetched |-> <<>>, result |-> <<>>]

\* A new installation (no key file, no table) at time now, with call as the
\* record of the last operation.
InitWith(now, call) ==
    /\ keyFile = NoKey
    /\ key = NoKey
    /\ keysGenerated = 0
    /\ rows = {}
    /\ seq = 0
    /\ clock = now
    /\ lastCall = call
    /\ keyRemoved = FALSE
    /\ sessionKeys = {}
    /\ issued = <<>>
    /\ ConcInit

Init == InitWith(0, Call("none", "ok"))

(* ---------------------------- key management -------------------------- *)
\* Variant: a key is generated on every initialization.
setup_encryption_regenerates(kf, generated) ==
    [keyFile |-> generated + 1, key |-> generated + 1, generated |-> generated + 1]

\* Database.setup_encryption: kf is the key file, generated the number of keys
\* generated so far; a generated key is fresh (Fernet.generate_key()).
setup_encryption(kf, generated) ==
    IF kf = NoKey
    THEN [keyFile |-> generated + 1, key |-> generated + 1, generated |-> generated + 1]
    ELSE [keyFile |-> kf, key |-> kf, generated |-> generated]

\* Variant: the table is dropped and created again.
setup_database_recreate(rs, sq) == [rows |-> {}, seq |-> 0]

\* Database.setup_database: CREATE TABLE IF NOT EXISTS creates an empty table
\* (no rows, counter 0) in a new file and leaves an existing table and its
\* sqlite_sequence entry alone.
setup_database(rs, sq) == [rows |-> rs, seq |-> sq]

\* Database.__init__: setup_encryption, then setup_database.  io names the step
\* at which the file system fails, if any.
DatabaseInit ==
    \E io \in {"ok", "key_io", "db_io"} :
        LET se == setup_encryption(keyFile, keysGenerated)
            sd == setup_database(rows, seq)
        IN
        /\ se.generated <= MaxKeys
        /\ IF io = "key_io"
           THEN /\ key' = NoKey
                /\ UNCHANGED <<keyFile, keysGenerated>>
           ELSE /\ keyFile' = se.keyFile
                /\ keysGenerated' = se.generated
                /\ key' = IF io = "ok" THEN se.key ELSE NoKey
        /\ sessionKeys' = IF io = "ok" THEN sessionKeys \cup {se.key} ELSE sessionKeys
        /\ rows' = IF io = "ok" THEN sd.rows ELSE rows
        /\ seq' = IF io = "ok" THEN sd.seq ELSE seq
        /\ lastCall' = [Call("init", IF io = "ok" THEN "ok" ELSE "raised")
                          EXCEPT !.failed = (io # "ok")]
        /\ UNCHANGED <<clock, keyRemoved, issued, concVars>>

(* ----------------------------- the table ------------------------------ *)
Ids(rs) == {r.id : r \in rs}

Max(a, b) == IF a >= b THEN a ELSE b

MaxRowid(rs) == IF rs = {} THEN 0 ELSE CHOOSE m \in Ids(rs) : \A i \in Ids(rs) : i <= m

\* Variant: INTEGER PRIMARY KEY without AUTOINCREMENT.
NextRowid_reuse(rs, sq) == MaxRowid(rs) + 1

\* INTEGER PRIMARY KEY AUTOINCREMENT: one more than the largest rowid the
\* table has ever held, which sqlite_sequence remembers.
NextRowid(rs, sq) == Max(MaxRowid(rs), sq) + 1

\* Variant: the secret is inserted as passed.
add_account_cleartext(k, rs, sq, now, name, secret, issuer) ==
    LET account_id == NextRowid(rs, sq) IN
    [rows |-> rs \cup {[id |-> account_id, name |-> name,
                        secret |-> [k |-> NoKey, p |-> secret, ok |-> TRUE],
                        issuer |-> issuer, created_at |-> now]},
     seq |-> account_id,
     id |-> account_id]

\* Variant: INSERT OR REPLACE with a unique name.
add_account_unique(k, rs, sq, now, name, secret, issuer) ==
    LET account_id == NextRowid(rs, sq)
        encrypted_secret == encrypt_secret(k, secret)
    IN [rows |-> {r \in rs : r.name # name}
                    \cup {[id |-> account_id, name |-> name,
                           secret |-> encrypted_secret, issuer |-> issuer,
                           created_at |-> now]},
        seq |-> account_id,
        id |-> account_id]

\* Database.add_account
add_account(k, rs, sq, now, name, secret, issuer) ==
    LET account_id == NextRowid(rs, sq)
        encrypted_secret == encrypt_secret(k, secret)
    IN [rows |-> rs \cup {[id |-> account_id, name |-> name,
                           secret |-> encrypted_secret, issuer |-> issuer,
                           created_at |-> now]},
        seq |-> account_id,
        id |-> account_id]

\* Variant: DELETE ... WHERE id <= ?
delete_account_upto(rs, account_id) == {r \in rs : r.id > account_id}

\* Database.delete_account
delete_account(rs, account_id) == {r \in rs : r.id # account_id}

\* Variant: UPDATE without the WHERE clause.
update_account_everywhere(k, rs, account_id, name, secret, issuer) ==
    {[r EXCEPT !.name = name, !.secret = encrypt_secret(k, secret), !.issuer = issuer] :
        r \in rs}

\* Database.update_account
update_account(k, rs, account_id, name, secret, issuer) ==
    LET encrypted_secret == encrypt_secret(k, secret) IN
    {IF r.id = account_id
     THEN [r EXCEPT !.name = name, !.secret = encrypted_secret, !.issuer = issuer]
     ELSE r : r \in rs}

(* ------------------------------ listing ------------------------------- *)
\* memcmp order of two texts, the shorter first when one is a prefix (BINARY).
BinaryLeq(a, b) ==
    LET n == IF Len(a) <= Len(b) THEN Len(a) ELSE Len(b)
        diff == {i \in 1..n : a[i] # b[i]}
    IN IF diff = {} THEN Len(a) <= Len(b)
       ELSE LET i == CHOOSE j \in diff : \A m \in diff : j <= m IN a[i] < b[i]

\* Variant: ORDER BY name COLLATE NOCASE.
OrderByName_nocase(rs) ==
    LET n == Cardinality(rs)
        fold(t) == [i \in 1..Len(t) |-> Upper(t[i])]
    IN {f \in [1..n -> rs] :
          /\ \A i, j \in 1..n : i # j => f[i] # f[j]
          /\ \A i \in 1..n : i < n => BinaryLeq(fold(f[i].name), fold(f[i + 1].name))}

\* SELECT id, name, secret, issuer FROM accounts ORDER BY name: every order of
\* the rows that is ascending by name (rows of equal name come in any order).
OrderByName(rs) ==
    LET n == Cardinality(rs) IN
    {f \in [1..n -> rs] :
        /\ \A i, j \in 1..n : i # j => f[i] # f[j]
        /\ \A i \in 1..n : i < n => BinaryLeq(f[i].name, f[i + 1].name)}

\* Variant: a row that fails to decrypt aborts the listing.
get_all_accounts_abort(k, accounts) ==
    IF \A i \in 1..Len(accounts) : Decryptable(k, accounts[i].secret)
    THEN [i \in 1..Len(accounts) |->
            [id |-> accounts[i].id, name |-> accounts[i].name,
             secret |-> decrypt_secret(k, accounts[i].secret), issuer |-> accounts[i].issuer]]
    ELSE <<>>

\* The decryption loop of Database.get_all_accounts over the fetched rows.
get_all_accounts(k, accounts) ==
    LET decrypts(account) == Decryptable(k, account.secret)
        kept == SelectSeq(accounts, decrypts)
    IN [i \in 1..Len(kept) |->
          [id |-> kept[i].id, name |-> kept[i].name,
           secret |-> decrypt_secret(k, kept[i].secret), issuer |-> kept[i].issuer]]

(* --------------------------- the add path ----------------------------- *)
\* Variant: the dialog passes the typed secret on without cleaning it.
DialogAddAccount_unclean(nameIn, secretIn, issuerIn) ==
    LET name == strip(nameIn)
        secret == strip(secretIn)
        issuer == strip(issuerIn)
    IN [accepted |-> name # <<>> /\ secret # <<>> /\ validate_secret(secret).valid,
        name |-> name, secret |-> secret, issuer |-> issuer]

\* AddAccountDialog.add_account: the dialog's result for the typed fields.
DialogAddAccount(nameIn, secretIn, issuerIn) ==
    LET name == strip(nameIn)
        secret == strip(secretIn)
        issuer == strip(issuerIn)
        accepted == name # <<>> /\ secret # <<>> /\ validate_secret(secret).valid
    IN [accepted |-> accepted,
        name |-> name,
        secret |-> IF accepted THEN clean_secret(secret) ELSE <<>>,
        issuer |-> issuer]

\* AuthenticatorApp.add_account: the dialog, then Database.add_account with the
\* dialog's result.  io is a storage failure inside Database.add_account.
AddAccountFrom(names, secrets, issuers, maxId) ==
    /\ key # NoKey
    /\ \E nameIn \in names, secretIn \in secrets, issuerIn \in issuers :
        LET d == DialogAddAccount(nameIn, secretIn, issuerIn)
            a == add_account(key, rows, seq, clock, d.name, d.secret, d.issuer)
        IN IF ~d.accepted
           THEN /\ lastCall' = [Call("add", "rejected") EXCEPT !.name = nameIn,
                                     !.secret = secretIn, !.issuer = issuerIn]
                /\ UNCHANGED <<rows, seq, issued>>
           ELSE \/ /\ lastCall' = [Call("add", "raised") EXCEPT !.failed = TRUE]
                   /\ UNCHANGED <<rows, seq, issued>>
                \/ /\ a.id <= maxId
                   /\ rows' = a.rows
                   /\ seq' = a.seq
                   /\ issued' = Append(issued, a.id)
                   /\ lastCall' = [Call("add", "ok") EXCEPT !.id = a.id, !.name = nameIn,
                                     !.secret = secretIn, !.issuer = issuerIn]
    /\ UNCHANGED <<keyFile, key, keysGenerated, clock, keyRemoved, sessionKeys>>
    /\ UNCHANGED concVars

AddAccount == AddAccountFrom(NameInputs, SecretInputs, IssuerInputs, MaxId)

(* ------------------------- the other operations ----------------------- *)
\* Database.get_all_accounts: a storage failure is caught and [] is returned.
GetAllAccounts ==
    /\ key # NoKey
    /\ \E io \in BOOLEAN, accounts \in OrderByName(rows) :
        lastCall' = IF io
                    THEN [Call("list", "ok") EXCEPT !.failed = TRUE]
                    ELSE [Call("list", "ok") EXCEPT
                            !.fetched = [i \in 1..Len(accounts) |-> accounts[i].id],
                            !.result = get_all_accounts(key, accounts)]
    /\ UNCHANGED <<keyFile, key, keysGenerated, rows, seq, clock,
                   keyRemoved, sessionKeys, issued>>
    /\ UNCHANGED concVars

DeleteAccountOf(maxId) ==
    /\ key # NoKey
    /\ \E account_id \in 1..maxId, io \in BOOLEAN :
        IF io
        THEN /\ lastCall' = [Call("delete", "raised") EXCEPT !.failed = TRUE, !.id = account_id]
             /\ UNCHANGED rows
        ELSE /\ rows' = delete_account(rows, account_id)
             /\ lastCall' = [Call("delete", "ok") EXCEPT !.id = account_id]
    /\ UNCHANGED <<keyFile, key, keysGenerated, seq, clock, keyRemoved, sessionKeys, issued>>
    /\ UNCHANGED concVars

DeleteAccount == DeleteAccountOf(MaxId)

UpdateNames == {alpha}
UpdateSecrets == {clean_secret(DashedSecret)}

UpdateAccountFrom(names, secrets, issuers, maxId) ==
    /\ key # NoKey
    /\ \E account_id \in 1..maxId :
        \/ /\ lastCall' = [Call("update", "raised") EXCEPT !.failed = TRUE, !.id = account_id]
           /\ UNCHANGED rows
        \/ \E name \in names, secret \in secrets, issuer \in issuers :
           /\ rows' = update_account(key, rows, account_id, name, secret, issuer)
           /\ lastCall' = [Call("update", "ok") EXCEPT !.id = account_id, !.name = name,
                             !.secret = secret, !.issuer = issuer]
    /\ UNCHANGED <<keyFile, key, keysGenerated, seq, clock, keyRemoved, sessionKeys, issued>>
    /\ UNCHANGED concVars

UpdateAccount == UpdateAccountFrom(UpdateNames, UpdateSecrets, IssuerInputs, MaxId)

(* --------------------------- the environment -------------------------- *)
\* The stored token of one row is altered on disk.
CorruptRow ==
    /\ \E r \in rows :
        /\ r.secret.ok
        /\ rows' = (rows \ {r}) \cup {[r EXCEPT !.secret.ok = FALSE]}
    /\ lastCall' = Call("corrupt", "ok")
    /\ UNCHANGED <<keyFile, key, keysGenerated, seq, clock, keyRemoved, sessionKeys, issued>>
    /\ UNCHANGED concVars

\* key.key is removed (lost, or the data directory moved without it).
RemoveKeyFile ==
    /\ keyFile # NoKey
    /\ keyFile' = NoKey
    /\ keyRemoved' = TRUE
    /\ lastCall' = Call("remove_key", "ok")
    /\ UNCHANGED <<key, keysGenerated, rows, seq, clock, sessionKeys, issued>>
    /\ UNCHANGED concVars

TickTo(max) ==
    /\ clock < max
    /\ clock' = clock + 1
    /\ UNCHANGED <<keyFile, key, keysGenerated, rows, seq, lastCall,
                   keyRemoved, sessionKeys, issued>>
    /\ UNCHANGED concVars

Tick == TickTo(MaxClock)

(* The operations of the program, restarts included, as time passes.       *)
Next ==
    \/ DatabaseInit
    \/ AddAccount
    \/ GetAllAccounts
    \/ DeleteAccount
    \/ UpdateAccount
    \/ Tick

Spec == Init /\ [][Next]_vars

(* The operations while the environment loses the key file or damages      *)
(* stored tokens; one secret, no issuer.                                   *)
EnvAdd == AddAccountFrom({Bravo, PaddedAlpha}, {SpacedSecret}, {Empty}, MaxId)

EnvUpdate == UpdateAccountFrom(UpdateNames, UpdateSecrets, {Empty}, MaxId)

NextEnv ==
    \/ DatabaseInit
    \/ EnvAdd
    \/ GetAllAccounts
    \/ DeleteAccount
    \/ EnvUpdate
    \/ CorruptRow
    \/ RemoveKeyFile

SpecEnv == Init /\ [][NextEnv]_vars

(* The listing, over tables of up to MaxListId rows built from the names of *)
(* the ordering example with one secret and no issuer.                     *)
ListAdd == AddAccountFrom(ListNames, {SpacedSecret}, {Empty}, MaxListId)

ListDelete == DeleteAccountOf(MaxListId)

ListUpdate == UpdateAccountFrom(ListNames, {clean_secret(SpacedSecret)}, {Empty}, MaxListId)

NextList ==
    \/ DatabaseInit
    \/ ListAdd
    \/ GetAllAccounts
    \/ ListDelete
    \/ ListUpdate
    \/ CorruptRow

SpecList == Init /\ [][NextList]_vars

(* -------------------------- the delete path --------------------------- *)
\* Variant: the id is not looked up in the listing.
listed_unchecked(accounts, account_id) == TRUE

\* any(acc[0] == account_id for acc in accounts)
listed(accounts, account_id) ==
    \E i \in 1..Len(accounts) : accounts[i].id = account_id

\* AuthenticatorApp.delete_account up to the test of the listing: an id that
\* get_all_accounts does not return gets the notice and the call returns.
AppDeleteList ==
    /\ key # NoKey
    /\ appDelete.pc = "idle"
    /\ \E account_id \in 1..MaxId, io \in BOOLEAN, fetched \in OrderByName(rows) :
        LET accounts == IF io THEN <<>> ELSE get_all_accounts(key, fetched) IN
        IF listed(accounts, account_id)
        THEN /\ appDelete' = [pc |-> "listed", id |-> account_id, seen |-> rows]
             /\ UNCHANGED lastCall
        ELSE /\ appDelete' = [pc |-> "idle", id |-> account_id, seen |-> {}]
             /\ lastCall' = [Call("app_delete", "not_found") EXCEPT
                               !.id = account_id, !.failed = io]
    /\ UNCHANGED <<keyFile, key, keysGenerated, rows, seq, clock,
                   keyRemoved, sessionKeys, issued, dbVars, guiVars>>

\* The rest of AuthenticatorApp.delete_account: Database.delete_account, or
\* the error notice when it raises.
AppDeleteRemove ==
    /\ appDelete.pc = "listed"
    /\ appDelete' = [appDelete EXCEPT !.pc = "idle"]
    /\ \E io \in BOOLEAN :
        IF io
        THEN /\ lastCall' = [Call("app_delete", "raised") EXCEPT
                               !.failed = TRUE, !.id = appDelete.id]
             /\ UNCHANGED rows
        ELSE /\ rows' = delete_account(rows, appDelete.id)
             /\ lastCall' = [Call("app_delete", "ok") EXCEPT !.id = appDelete.id]
    /\ UNCHANGED <<keyFile, key, keysGenerated, seq, clock,
                   keyRemoved, sessionKeys, issued, dbVars, guiVars>>

\* The application is started again; a call in progress ends with the process.
AppRestart ==
    /\ appDelete.pc = "idle"
    /\ DatabaseInit

AppAdd == AddAccountFrom({Bravo}, SecretInputs, {Empty}, MaxId)

(* The application's add and delete paths while the environment damages    *)
(* stored tokens.                                                          *)
NextApp ==
    \/ AppRestart
    \/ AppAdd
    \/ GetAllAccounts
    \/ AppDeleteList
    \/ AppDeleteRemove
    \/ CorruptRow

SpecApp == Init /\ [][NextApp]_vars

(* ----------------------- the add-account dialog ----------------------- *)
\* The main thread runs one callback at a time; while a dialog is shown its
\* event loop runs further callbacks.
MainFree == \A src \in {"button", "hotkey"} : callers[src] # "checked"

\* _hotkey_add_account: root.after(0, self.add_account)
HotkeyPressed ==
    /\ root = "alive"
    /\ callers["hotkey"] = "idle"
    /\ callers' = [callers EXCEPT !["hotkey"] = "scheduled"]
    /\ UNCHANGED <<storeVars, dbVars, appDelete, dialog_open, update_thread_running,
                   loop, root, afterQueue, widgets, token_widgets, clearing>>

\* AuthenticatorApp.add_account up to the test of dialog_open: the call
\* returns when the flag is set.
Invoke(src) ==
    /\ root = "alive"
    /\ callers[src] = IF src = "hotkey" THEN "scheduled" ELSE "idle"
    /\ src # "tray" => MainFree
    /\ IF dialog_open
       THEN /\ callers' = [callers EXCEPT ![src] = "idle"]
            /\ lastCall' = [Call("add_account", "already_open") EXCEPT
                              !.name = <<src>>]
       ELSE /\ callers' = [callers EXCEPT ![src] = "checked"]
            /\ UNCHANGED lastCall
    /\ UNCHANGED <<keyFile, key, keysGenerated, rows, seq, clock, keyRemoved,
                   sessionKeys, issued, dbVars, appDelete, dialog_open,
                   update_thread_running, loop, root, afterQueue, widgets,
                   token_widgets, clearing>>

\* self.dialog_open = True, AddAccountDialog(...) and dialog.show()
Open(src) ==
    /\ callers[src] = "checked"
    /\ dialog_open' = TRUE
    /\ callers' = [callers EXCEPT ![src] = "showing"]
    /\ UNCHANGED <<storeVars, dbVars, appDelete, update_thread_running,
                   loop, root, afterQueue, widgets, token_widgets, clearing>>

\* The dialog closes: the account is added, the dialog was cancelled, or the
\* dialog or Database.add_account raised; the finally clause clears the flag.
\* An add on the tray thread goes on to load_accounts there.
Close(src) ==
    /\ callers[src] = "showing"
    /\ \E outcome \in {"added", "cancelled", "raised"} :
        /\ lastCall' = [Call("add_account", outcome) EXCEPT
                          !.name = <<src>>, !.failed = (outcome = "raised")]
        /\ clearing' = IF src = "tray" /\ outcome = "added" /\ clearing = "idle"
                           /\ Len(widgets) < MaxWidgets
                       THEN "destroying" ELSE clearing
    /\ dialog_open' = FALSE
    /\ callers' = [callers EXCEPT ![src] = "idle"]
    /\ UNCHANGED <<keyFile, key, keysGenerated, rows, seq, clock, keyRemoved,
                   sessionKeys, issued, dbVars, appDelete, update_thread_running,
                   loop, root, afterQueue, widgets, token_widgets>>

(* ----------------------- the token widgets ---------------------------- *)
\* clear_tokens on the tray thread: widget.destroy() for the next widget of
\* the list, carried out by the main thread between two callbacks.
ClearDestroy ==
    /\ clearing = "destroying"
    /\ \E w \in token_widgets :
        /\ widgets[w] = "alive"
        /\ widgets' = [widgets EXCEPT ![w] = "destroyed"]
    /\ UNCHANGED <<storeVars, dbVars, appDelete, dialog_open, callers,
                   update_thread_running, loop, root, afterQueue, token_widgets,
                   clearing>>

\* self.token_widgets.clear(), then load_accounts creates the new widgets.
ClearList ==
    /\ clearing = "destroying"
    /\ \A w \in token_widgets : widgets[w] = "destroyed"
    /\ \E made \in 1..(MaxWidgets - Len(widgets)) :
        /\ widgets' = widgets \o [i \in 1..made |->
                                     IF root = "alive" THEN "alive" ELSE "destroyed"]
        /\ token_widgets' = (Len(widgets) + 1)..(Len(widgets) + made)
    /\ clearing' = "idle"
    /\ UNCHANGED <<storeVars, dbVars, appDelete, dialog_open, callers,
                   update_thread_running, loop, root, afterQueue>>

\* widget.winfo_exists(): false for a widget that was destroyed, TclError
\* once the application itself was destroyed.
winfo_exists(state, window) ==
    IF window = "destroyed" THEN "TclError"
    ELSE IF state = "alive" THEN "true" ELSE "false"

\* AuthenticatorApp.refresh_tokens over a copy of the list: a widget that
\* exists is updated, one whose test raises TclError leaves the list.
refresh_widgets(ws, widgets_copy, window) ==
    {w \in widgets_copy : winfo_exists(ws[w], window) # "TclError"}

\* The main thread runs a scheduled refresh_tokens.
Refresh ==
    /\ root = "alive"
    /\ afterQueue > 0
    /\ MainFree
    /\ afterQueue' = afterQueue - 1
    /\ token_widgets' = refresh_widgets(widgets, token_widgets, root)
    /\ lastCall' = [Call("refresh_tokens", "ok") EXCEPT
                      !.fetched = [w \in 1..Len(widgets) |->
                                     IF w \in token_widgets
                                     THEN winfo_exists(widgets[w], root)
                                     ELSE "unlisted"]]
    /\ UNCHANGED <<keyFile, key, keysGenerated, rows, seq, clock, keyRemoved,
                   sessionKeys, issued, dbVars, appDelete, dialog_open, callers,
                   update_thread_running, loop, root, widgets, clearing>>

(* ------------------------- the update thread -------------------------- *)
\* while self.update_thread_running
LoopTest ==
    /\ loop.pc = "test"
    /\ loop' = [loop EXCEPT !.pc = IF update_thread_running THEN "exists" ELSE "done"]
    /\ UNCHANGED <<storeVars, dbVars, appDelete, dialog_open, callers,
                   update_thread_running, root, afterQueue, widgets,
                   token_widgets, clearing>>

\* if self.root and self.root.winfo_exists(): ... else: break; a TclError
\* breaks as well.
LoopExists ==
    /\ loop.pc = "exists"
    /\ loop' = [loop EXCEPT !.pc = IF winfo_exists(root, root) = "true"
                                   THEN "after" ELSE "done"]
    /\ UNCHANGED <<storeVars, dbVars, appDelete, dialog_open, callers,
                   update_thread_running, root, afterQueue, widgets,
                   token_widgets, clearing>>

\* self.root.after(0, self.refresh_tokens); the queue is counted up to
\* MaxQueue.  A destroyed window raises TclError, which breaks.
LoopAfter ==
    /\ loop.pc = "after"
    /\ IF root = "alive"
       THEN /\ afterQueue' = IF afterQueue < MaxQueue THEN afterQueue + 1 ELSE afterQueue
            /\ loop' = [pc |-> "sleep",
                        late |-> IF update_thread_running \/ loop.late = MaxQueue
                                 THEN loop.late ELSE loop.late + 1]
       ELSE /\ loop' = [loop EXCEPT !.pc = "done"]
            /\ UNCHANGED afterQueue
    /\ UNCHANGED <<storeVars, dbVars, appDelete, dialog_open, callers,
                   update_thread_running, root, widgets, token_widgets, clearing>>

\* time.sleep(1)
LoopSleep ==
    /\ loop.pc = "sleep"
    /\ loop' = [loop EXCEPT !.pc = "test"]
    /\ UNCHANGED <<storeVars, dbVars, appDelete, dialog_open, callers,
                   update_thread_running, root, afterQueue, widgets,
                   token_widgets, clearing>>

UpdateLoop == LoopTest \/ LoopExists \/ LoopAfter \/ LoopSleep

\* quit_app: self.update_thread_running = False
QuitFlag ==
    /\ root = "alive"
    /\ update_thread_running
    /\ update_thread_running' = FALSE
    /\ lastCall' = Call("quit_app", "ok")
    /\ UNCHANGED <<keyFile, key, keysGenerated, rows, seq, clock, keyRemoved,
                   sessionKeys, issued, dbVars, appDelete, dialog_open, callers,
                   loop, root, afterQueue, widgets, token_widgets, clearing>>

\* quit_app after the join returned or timed out: root.quit() and
\* root.destroy(), which destroys every widget and drops the callbacks.
QuitDestroy ==
    /\ root = "alive"
    /\ ~update_thread_running
    /\ root' = "destroyed"
    /\ widgets' = [w \in 1..Len(widgets) |-> "destroyed"]
    /\ afterQueue' = 0
    /\ UNCHANGED <<storeVars, dbVars, appDelete, dialog_open, callers,
                   update_thread_running, loop, token_widgets, clearing>>

NextGui ==
    \/ HotkeyPressed
    \/ \E src \in Sources : Invoke(src)
    \/ \E src \in Sources : Open(src)
    \/ \E src \in Sources : Close(src)
    \/ ClearDestroy
    \/ ClearList
    \/ Refresh
    \/ LoopTest
    \/ LoopExists
    \/ LoopAfter
    \/ LoopSleep
    \/ QuitFlag
    \/ QuitDestroy

SpecGui == Init /\ [][NextGui]_vars

\* The update thread is a thread of its own: it is scheduled again and
\* again, and sleep(1) returns.
SpecGuiFair == SpecGui /\ WF_vars(UpdateLoop)

(* ------------------- the operations, step by step -------------------- *)
(* Each Database operation opens its own sqlite3 connection.  A write      *)
(* statement opens a transaction on that connection, which takes the write *)
(* lock of the file and keeps its changes to itself; commit() installs     *)
(* them; a connection dropped with an open transaction rolls it back.      *)

\* Variant: the connection is in autocommit mode, the statement is installed
\* when it is executed.
execute_autocommit(rs, sq, written) == written

\* cursor.execute of INSERT, UPDATE or DELETE inside the implicit transaction:
\* the committed table stays as it is, written is held by the connection.
execute(rs, sq, written) == [rows |-> rs, seq |-> sq]

\* Variant: SELECT sees the uncommitted changes of the other connections
\* (PRAGMA read_uncommitted on a shared cache).
select_uncommitted(rs, cs) ==
    LET dirty == {t \in Threads : cs[t].pending # <<>>} IN
    IF dirty = {} THEN rs ELSE cs[CHOOSE t \in dirty : TRUE].pending[1].rows

\* The table a SELECT of another connection reads: the committed rows.
select(rs, cs) == rs

\* A write statement proceeds when no other connection holds the write lock.
write_lock(lock, t) == lock \in {0, t}

\* The table and counter a write of thread t would leave, from the committed
\* contents rs, sq.
Written(c, rs, sq) ==
    CASE c.op = "add" ->
            LET a == add_account(key, rs, sq, clock, c.name, c.secret, c.issuer)
            IN [rows |-> a.rows, seq |-> a.seq, id |-> a.id]
      [] c.op = "delete" ->
            [rows |-> delete_account(rs, c.id), seq |-> sq, id |-> c.id]
      [] c.op = "update" ->
            [rows |-> update_account(key, rs, c.id, c.name, c.secret, c.issuer),
             seq |-> sq, id |-> c.id]

ConcNames == {Bravo, alpha}

\* A thread calls an operation: sqlite3.connect.
Connect(t) ==
    /\ key # NoKey
    /\ conns[t].pc = "idle"
    /\ conns[1].n + conns[2].n < MaxOps
    /\ \E op \in {"add", "list", "delete", "update"},
          account_id \in 1..MaxId, name \in ConcNames :
        /\ op \in {"add", "list"} => account_id = 1
        /\ op \in {"list", "delete"} => name = Bravo
        /\ conns' = [conns EXCEPT ![t] =
               [Idle EXCEPT !.pc = "connected", !.op = op,
                            !.id = IF op \in {"delete", "update"} THEN account_id ELSE 0,
                            !.name = IF op \in {"add", "update"} THEN name ELSE <<>>,
                            !.secret = IF op \in {"add", "update"}
                                       THEN clean_secret(SpacedSecret) ELSE <<>>,
                            !.n = conns[t].n + 1, !.raised = conns[t].raised]]
    /\ UNCHANGED <<keyFile, key, keysGenerated, rows, seq, clock, lastCall,
                   keyRemoved, sessionKeys, issued, dbLock, commitLog, tables, appVars>>

\* encrypt_secret and cursor.execute of a write.  The statement waits while
\* another connection holds the write lock; raised is an encryption or
\* storage error, or the end of the wait (database is locked).
ExecuteWrite(t) ==
    /\ conns[t].pc = "connected"
    /\ conns[t].op \in {"add", "delete", "update"}
    /\ \/ /\ write_lock(dbLock, t)
          /\ LET w == Written(conns[t], rows, seq)
                 e == execute(rows, seq, w)
             IN /\ w.id <= MaxId
                /\ rows' = e.rows
                /\ seq' = e.seq
                /\ conns' = [conns EXCEPT ![t].pc = "executed", ![t].pending = <<w>>]
          /\ dbLock' = t
          /\ UNCHANGED lastCall
       \/ /\ conns' = [conns EXCEPT ![t].pc = "raised", ![t].raised = @ + 1]
          /\ lastCall' = [Call(conns[t].op, "raised") EXCEPT
                            !.failed = TRUE, !.id = conns[t].id, !.at = t]
          /\ UNCHANGED <<rows, seq, dbLock>>
    /\ UNCHANGED <<keyFile, key, keysGenerated, clock, keyRemoved, sessionKeys,
                   issued, commitLog, tables, appVars>>

\* conn.commit(), conn.close() and the return; or commit raises and the
\* connection is left open with its transaction.
Commit(t) ==
    /\ conns[t].pc = "executed"
    /\ LET w == conns[t].pending[1] IN
       \/ /\ rows' = w.rows
          /\ seq' = w.seq
          /\ dbLock' = 0
          /\ conns' = [conns EXCEPT ![t] = Returned(conns[t])]
          /\ commitLog' = Append(commitLog, [conns[t] EXCEPT !.pc = "idle", !.pending = <<>>,
                                               !.n = 0, !.raised = 0])
          /\ tables' = tables \cup {w.rows}
          /\ issued' = IF conns[t].op = "add" THEN Append(issued, w.id) ELSE issued
          /\ lastCall' = [Call(conns[t].op, "ok") EXCEPT
                            !.id = w.id, !.name = conns[t].name,
                            !.secret = conns[t].secret, !.at = t]
       \/ /\ conns' = [conns EXCEPT ![t].pc = "raised", ![t].raised = @ + 1]
          /\ lastCall' = [Call(conns[t].op, "raised") EXCEPT
                            !.failed = TRUE, !.id = conns[t].id, !.at = t]
          /\ UNCHANGED <<rows, seq, dbLock, commitLog, tables, issued>>
    /\ UNCHANGED <<keyFile, key, keysGenerated, clock, keyRemoved, sessionKeys, appVars>>

\* The connection of an operation that raised is released with the frame
\* that held it: sqlite3 closes it and rolls its transaction back.
Dispose(t) ==
    /\ conns[t].pc = "raised"
    /\ conns' = [conns EXCEPT ![t] = Returned(conns[t])]
    /\ dbLock' = IF dbLock = t THEN 0 ELSE dbLock
    /\ UNCHANGED <<keyFile, key, keysGenerated, rows, seq, clock, lastCall,
                   keyRemoved, sessionKeys, issued, commitLog, tables, appVars>>

\* SELECT ... ORDER BY name, fetchall() and conn.close() of get_all_accounts;
\* a storage error is caught and [] is returned.
Select(t) ==
    /\ conns[t].pc = "connected"
    /\ conns[t].op = "list"
    /\ \/ /\ \E accounts \in OrderByName(select(rows, conns)) :
               conns' = [conns EXCEPT ![t].pc = "fetched", ![t].accounts = accounts]
          /\ UNCHANGED lastCall
       \/ /\ conns' = [conns EXCEPT ![t] = Returned(conns[t])]
          /\ lastCall' = [Call("list", "ok") EXCEPT !.failed = TRUE, !.at = t]
    /\ UNCHANGED <<keyFile, key, keysGenerated, rows, seq, clock,
                   keyRemoved, sessionKeys, issued, dbLock, commitLog, tables, appVars>>

\* The decryption loop of get_all_accounts and its return.
Decrypt(t) ==
    /\ conns[t].pc = "fetched"
    /\ conns' = [conns EXCEPT ![t] = Returned(conns[t])]
    /\ lastCall' = [Call("list", "ok") EXCEPT
                      !.fetched = [i \in 1..Len(conns[t].accounts) |->
                                     conns[t].accounts[i].id],
                      !.result = get_all_accounts(key, conns[t].accounts),
                      !.at = t]
    /\ UNCHANGED <<keyFile, key, keysGenerated, rows, seq, clock,
                   keyRemoved, sessionKeys, issued, dbLock, commitLog, tables, appVars>>

\* A store after its first initialization, used by two threads.
InitConc ==
    LET se == setup_encryption(NoKey, 0) IN
    /\ keyFile = se.keyFile
    /\ key = se.key
    /\ keysGenerated = se.generated
    /\ rows = {}
    /\ seq = 0
    /\ clock = 0
    /\ lastCall = Call("init", "ok")
    /\ keyRemoved = FALSE
    /\ sessionKeys = {se.key}
    /\ issued = <<>>
    /\ ConcInit

NextConc ==
    \/ \E t \in Threads : Connect(t)
    \/ \E t \in Threads : ExecuteWrite(t)
    \/ \E t \in Threads : Commit(t)
    \/ \E t \in Threads : Dispose(t)
    \/ \E t \in Threads : Select(t)
    \/ \E t \in Threads : Decrypt(t)

SpecConc == InitConc /\ [][NextConc]_vars

(* --------------------------- the secret codec ------------------------- *)
\* The text typed or pasted into the secret field.
InitCodec == \E secret \in CodecInputs :
    InitWith(0, [Call("input", "ok") EXCEPT !.secret = secret])

\* TOTPGenerator.clean_secret applied to the input.
CleanSecret ==
    /\ lastCall.op = "input"
    /\ lastCall' = [Call("clean_secret", "ok") EXCEPT !.secret = lastCall.secret,
                      !.result = clean_secret(lastCall.secret)]
    /\ UNCHANGED <<keyFile, key, keysGenerated, rows, seq, clock,
                   keyRemoved, sessionKeys, issued>>
    /\ UNCHANGED concVars

\* TOTPGenerator.validate_secret applied to the input.
ValidateSecret ==
    /\ lastCall.op = "input"
    /\ lastCall' = [Call("validate_secret", "ok") EXCEPT !.secret = lastCall.secret,
                      !.result = <<validate_secret(lastCall.secret)>>]
    /\ UNCHANGED <<keyFile, key, keysGenerated, rows, seq, clock,
                   keyRemoved, sessionKeys, issued>>
    /\ UNCHANGED concVars

NextCodec ==
    \/ CleanSecret
    \/ ValidateSecret

SpecCodec == InitCodec /\ [][NextCodec]_vars

(* ---------------------------- the TOTP engine ------------------------- *)
\* The secrets of the accounts on screen, in the order of the widgets.
TotpWidgets == <<ExampleSecret, NineSecret, SpacedSecret>>

TotpSecrets == {SpacedSecret, ExampleSecret, TenSecret, NineSecret, ShortSecret, Empty}

\* The readings time.time() can give during the current second.
Readings == {clock * SubSecond + frac : frac \in 0..(SubSecond - 1)}

GenerateToken ==
    /\ \E secret \in TotpSecrets, now \in Readings :
        lastCall' = [Call("generate_token", "ok") EXCEPT !.secret = secret, !.at = now,
                       !.result = generate_token(secret, now)]
    /\ UNCHANGED <<keyFile, key, keysGenerated, rows, seq, clock,
                   keyRemoved, sessionKeys, issued>>
    /\ UNCHANGED concVars

GetTimeRemaining ==
    /\ \E now \in Readings :
        lastCall' = [Call("get_time_remaining", "ok") EXCEPT !.at = now,
                       !.result = <<get_time_remaining(now)>>]
    /\ UNCHANGED <<keyFile, key, keysGenerated, rows, seq, clock,
                   keyRemoved, sessionKeys, issued>>
    /\ UNCHANGED concVars

GetProgressPercentage ==
    /\ \E now \in Readings :
        lastCall' = [Call("get_progress_percentage", "ok") EXCEPT !.at = now,
                       !.result = <<get_progress_percentage(now)>>]
    /\ UNCHANGED <<keyFile, key, keysGenerated, rows, seq, clock,
                   keyRemoved, sessionKeys, issued>>
    /\ UNCHANGED concVars

\* One round of the update loop.
RefreshTokens ==
    /\ \E now \in Readings :
        lastCall' = [Call("refresh_tokens", "ok") EXCEPT !.at = now,
                       !.result = refresh_tokens(TotpWidgets, now)]
    /\ UNCHANGED <<keyFile, key, keysGenerated, rows, seq, clock,
                   keyRemoved, sessionKeys, issued>>
    /\ UNCHANGED concVars

TimePasses == TickTo(MaxTime)

NextTotp ==
    \/ GenerateToken
    \/ GetTimeRemaining
    \/ GetProgressPercentage
    \/ RefreshTokens
    \/ TimePasses

SpecTotp == Init /\ [][NextTotp]_vars

(* ------------------------- the stored envelope ------------------------ *)
\* Character c with bit number bit inverted.
FlipBit(c, bit) ==
    IF (c \div Pow2(bit)) % 2 = 1 THEN c - Pow2(bit) ELSE c + Pow2(bit)

\* A store after its first initialization, just after encrypt_secret
\* returned the text for one plaintext.
InitTamper ==
    \E secret \in PlainSecrets, iv \in 0..MaxIv :
        LET k == setup_encryption(NoKey, 0).key IN
        /\ keyFile = k
        /\ key = k
        /\ keysGenerated = 1
        /\ rows = {}
        /\ seq = 0
        /\ clock = 0
        /\ lastCall = [Call("encrypt_secret", "ok") EXCEPT !.secret = secret,
                         !.result = encrypt_secret_text(k, secret, 0, iv)]
        /\ keyRemoved = FALSE
        /\ sessionKeys = {k}
        /\ issued = <<>>
        /\ ConcInit

\* One bit of one character of the text just returned by encrypt_secret is
\* inverted, and the result is handed to decrypt_secret.
DecryptTampered ==
    /\ key # NoKey
    /\ lastCall.op = "encrypt_secret"
    /\ \E pos \in 1..Len(lastCall.result), bit \in 0..7 :
        LET tampered == [lastCall.result EXCEPT ![pos] = FlipBit(@, bit)]
            d == decrypt_secret_text(key, tampered)
        IN lastCall' = [Call("decrypt_secret", d.outcome) EXCEPT
                          !.failed = (d.outcome # "ok"), !.secret = lastCall.secret,
                          !.id = pos, !.at = bit, !.result = d.secret]
    /\ UNCHANGED <<keyFile, key, keysGenerated, rows, seq, clock,
                   keyRemoved, sessionKeys, issued>>
    /\ UNCHANGED concVars

NextTamper == DecryptTampered

SpecTamper == InitTamper /\ [][NextTamper]_vars

\* One account sealed and kept across restarts, with and without the key file.
SealAdd == AddAccountFrom({Bravo}, {SpacedSecret, ExampleSecret}, {Empty}, 1)

NextSeal ==
    \/ DatabaseInit
    \/ SealAdd
    \/ GetAllAccounts
    \/ RemoveKeyFile

SpecSeal == Init /\ [][NextSeal]_vars

(* ======================== properties of the store ===================== *)
Succeeded(op) == lastCall.op = op /\ lastCall.outcome = "ok" /\ ~lastCall.failed

\* What get_all_accounts may return in the current state.
Listings == {get_all_accounts(key, accounts) : accounts \in OrderByName(rows)}

\* C1: an initialization never ends with a key in use other than the key under
\* which the rows already in the table were encrypted.
C1_InitKeepsKeyOfRows ==
    Succeeded("init") => \A r \in rows : r.secret.k = key

\* C2: while the key file is never removed, one key is generated in all, every
\* initialization ends with the key that is in the file, and all sessions use
\* the same key.
C2_KeyGeneratedOnce ==
    ~keyRemoved =>
        /\ keysGenerated <= 1
        /\ Cardinality(sessionKeys) <= 1
        /\ Succeeded("init") => (keysGenerated = 1 /\ key = keyFile /\ key \in sessionKeys)
        /\ key # NoKey => key = keyFile

C2_Witness ==
    /\ ~keyRemoved
    /\ Succeeded("init")
    /\ rows # {}
    /\ keysGenerated = 1

\* C3: the secret column of every row is text sealed under a key of the store,
\* never text in the clear.
C3_SecretsStoredEncrypted ==
    \A r \in rows : r.secret.k # NoKey /\ r.secret.k \in sessionKeys

C3_Witness ==
    /\ Succeeded("update")
    /\ lastCall.id \in Ids(rows)
    /\ Cardinality(rows) = 2

\* The records of a listing that match the fields typed into the last add.
Matching(res) ==
    {i \in 1..Len(res) :
        /\ res[i].name = strip(lastCall.name)
        /\ res[i].issuer = strip(lastCall.issuer)
        /\ res[i].secret = clean_secret(lastCall.secret)}

\* C4 as stated: after an add, the listing holds exactly one record with the
\* name, the issuer and the cleaned secret of the add, and it has the id returned.
C4_ExactlyOneMatch ==
    Succeeded("add") =>
        \A res \in Listings :
            /\ Cardinality(Matching(res)) = 1
            /\ \A i \in Matching(res) : res[i].id = lastCall.id

\* C4 amended: after an add, the listing holds exactly one record with the id
\* returned, and that record has the name, the issuer and the cleaned secret
\* of the add.
C4_AddedRecordListed ==
    Succeeded("add") =>
        \A res \in Listings :
            LET mine == {i \in 1..Len(res) : res[i].id = lastCall.id} IN
            /\ Cardinality(mine) = 1
            /\ mine \subseteq Matching(res)

C4_Witness ==
    /\ Succeeded("add")
    /\ lastCall.name = PaddedAlpha
    /\ lastCall.secret = SpacedSecret
    /\ Cardinality(rows) = 2

\* C5: a listing returns exactly the rows that decrypt under the key in use,
\* each once and with its own name, issuer and decrypted secret, and nothing
\* for the rows that do not decrypt.
C5_ListingSkipsOnlyUndecryptable ==
    Succeeded("list") =>
        LET res == lastCall.result
            good == {r \in rows : Decryptable(key, r.secret)}
        IN /\ Len(res) = Cardinality(good)
           /\ {res[i].id : i \in 1..Len(res)} = Ids(good)
           /\ \A i \in 1..Len(res) : \E r \in good :
                /\ r.id = res[i].id
                /\ r.name = res[i].name
                /\ r.issuer = res[i].issuer
                /\ r.secret.p = res[i].secret

C5_Witness ==
    /\ Succeeded("list")
    /\ Cardinality(rows) = 2
    /\ Len(lastCall.result) = 1
    /\ \E r \in rows : ~r.secret.ok

\* C6: an operation during which the storage layer failed ends by raising.
C6_StorageFailureRaises ==
    lastCall.failed => lastCall.outcome = "raised"

\* C7: the ids returned by add_account are strictly increasing.
C7_IdsStrictlyIncrease ==
    \A i, j \in 1..Len(issued) : i < j => issued[i] < issued[j]

C7_Witness ==
    /\ Succeeded("add")
    /\ lastCall.id = 2
    /\ Ids(rows) = {2}

\* C8: a delete that does not fail raises nothing, removes the row of that id
\* and no other, changes nothing when the id is absent, and changes nothing
\* when repeated.
C8_DeleteRemovesOnlyThatRow ==
    [][(lastCall'.op = "delete" /\ ~lastCall'.failed /\ clock' = clock) =>
          /\ lastCall'.outcome = "ok"
          /\ rows' = {r \in rows : r.id # lastCall'.id}
          /\ lastCall'.id \notin Ids(rows) => rows' = rows
          /\ delete_account(rows', lastCall'.id) = rows'
          /\ seq' = seq]_vars

C8_Witness ==
    /\ Succeeded("delete")
    /\ lastCall.id \in Range(issued)
    /\ lastCall.id \notin Ids(rows)
    /\ Cardinality(rows) = 2

\* C9: an update that does not fail keeps the set of ids, every other row and
\* the created_at of the row; the row is then listed with the new name, secret
\* and issuer; an update of an absent id changes nothing.
C9_UpdateReplacesFieldsOnly ==
    [][(lastCall'.op = "update" /\ ~lastCall'.failed /\ clock' = clock) =>
          LET id == lastCall'.id IN
          /\ Ids(rows') = Ids(rows)
          /\ Cardinality(rows') = Cardinality(rows)
          /\ \A r \in rows : r.id # id => r \in rows'
          /\ \A r \in rows : r.id = id =>
                /\ \E u \in rows' : u.id = id /\ u.created_at = r.created_at
                /\ \A accounts \in OrderByName(rows') :
                     \E i \in 1..Len(get_all_accounts(key', accounts)) :
                        get_all_accounts(key', accounts)[i] =
                            [id |-> id, name |-> lastCall'.name,
                             secret |-> lastCall'.secret, issuer |-> lastCall'.issuer]
          /\ id \notin Ids(rows) => rows' = rows]_vars

C9_Witness ==
    /\ Succeeded("update")
    /\ lastCall.id \in Ids(rows)
    /\ Cardinality(rows) = 2
    /\ \E r \in rows : r.id = lastCall.id /\ r.created_at < clock

\* C10: a listing is in ascending byte-wise order of name, and the accounts it
\* returns are in the order in which their rows were fetched.
Pos(f, id) == CHOOSE n \in 1..Len(f) : f[n] = id

C10_ListingSortedByName ==
    lastCall.op = "list" =>
        LET res == lastCall.result
            f == lastCall.fetched
        IN \A i, j \in 1..Len(res) : i < j =>
              /\ BinaryLeq(res[i].name, res[j].name)
              /\ Pos(f, res[i].id) < Pos(f, res[j].id)

C10_Witness ==
    /\ Succeeded("list")
    /\ Len(lastCall.fetched) = 3
    /\ Len(lastCall.result) = 2
    /\ lastCall.result[1].name = Bravo
    /\ lastCall.result[2].name = alpha

\* C11: an add is refused on the typed fields alone, never on the rows already
\* stored; an add of a name already present keeps every stored row, inserts
\* one row under an id no stored row has, and every row is then listed.
C11_DuplicateNamesAccepted ==
    [][/\ (lastCall'.op = "add" /\ lastCall'.outcome = "rejected") =>
            ~DialogAddAccount(lastCall'.name, lastCall'.secret, lastCall'.issuer).accepted
       /\ (Succeeded("add")' /\ lastCall' # lastCall) =>
            /\ rows \subseteq rows'
            /\ Cardinality(rows') = Cardinality(rows) + 1
            /\ lastCall'.id \notin Ids(rows)
            /\ \A res \in Listings' : \A r \in rows' :
                  (r.name = strip(lastCall'.name) /\ Decryptable(key', r.secret)) =>
                      Cardinality({i \in 1..Len(res) : res[i].id = r.id}) = 1
      ]_vars

C11_Witness ==
    /\ Succeeded("add")
    /\ \E r1, r2 \in rows :
        /\ r1.id # r2.id
        /\ r2.id = lastCall.id
        /\ r1.name = r2.name /\ r1.issuer = r2.issuer /\ r1.secret = r2.secret
        /\ \A res \in Listings : {r1.id, r2.id} \subseteq {res[i].id : i \in 1..Len(res)}

\* What get_all_accounts may return for table rs under key k.
ListingsUnder(k, rs) == {get_all_accounts(k, accounts) : accounts \in OrderByName(rs)}

\* C12: an initialization leaves every row and the id counter as they were,
\* and the listing under each key of the store is the same before and after.
C12_SetupDatabaseIdempotent ==
    [][lastCall'.op = "init" =>
        /\ rows' = rows
        /\ seq' = seq
        /\ \A k \in sessionKeys' : ListingsUnder(k, rows') = ListingsUnder(k, rows)
      ]_vars

C12_Witness ==
    /\ Succeeded("init")
    /\ rows # {}
    /\ seq > MaxRowid(rows)
    /\ \A r \in rows : Decryptable(key, r.secret)

(* ---------------------------- otpauth URLs ---------------------------- *)
\* The URLs given to parse_otpauth_url: a head, a label and, after '?', up
\* to MaxParams parameters joined by '&'.
\* "otpauth://hotp/", "https://"
HotpPrefix == <<111, 116, 112, 97, 117, 116, 104, 58, 47, 47, 104, 111, 116, 112, 47>>
HttpsScheme == <<104, 116, 116, 112, 115, 58, 47, 47>>

\* "", "a:b", "a" then the TOTP prefix then "b"
LabelInputs == {Empty, <<97, 58, 98>>, <<97, 111, 116, 112, 97, 117, 116, 104, 58, 47, 47, 116, 111, 116, 112, 47, 98>>}

\* "secret=JB", "secret=K=%3D", "issuer=G", "issuer=", "flag", and "sec" then
\* the TOTP prefix then "ret=Z"
ParamInputs ==
    {<<115, 101, 99, 114, 101, 116, 61, 74, 66>>, <<115, 101, 99, 114, 101, 116, 61, 75, 61, 37, 51, 68>>, <<105, 115, 115, 117, 101, 114, 61, 71>>, <<105, 115, 115, 117, 101, 114, 61>>, <<102, 108, 97, 103>>,
     <<115, 101, 99, 111, 116, 112, 97, 117, 116, 104, 58, 47, 47, 116, 111, 116, 112, 47, 114, 101, 116, 61, 90>>}

RECURSIVE join(_, _)
join(parts, sep) ==
    IF parts = <<>> THEN <<>>
    ELSE IF Len(parts) = 1 THEN parts[1]
    ELSE parts[1] \o <<sep>> \o join(Tail(parts), sep)

\* "otpauth://totp/Google:user@gmail.com?secret=JBSWY3DPEHPK3PXP&issuer=Google"
ExampleUrl ==
    <<111, 116, 112, 97, 117, 116, 104, 58, 47, 47, 116, 111, 116, 112, 47, 71, 111, 111, 103, 108, 101, 58, 117, 115, 101, 114, 64, 103, 109, 97, 105, 108, 46, 99, 111, 109,
      63, 115, 101, 99, 114, 101, 116, 61, 74, 66, 83, 87, 89, 51, 68, 80, 69, 72, 80, 75, 51, 80, 88, 80,
      38, 105, 115, 115, 117, 101, 114, 61, 71, 111, 111, 103, 108, 101>>

UrlInputs ==
    {ExampleUrl} \cup
    {head \o label \o query :
        head \in {TotpPrefix, HotpPrefix, HttpsScheme, OtpauthScheme},
        label \in LabelInputs,
        query \in {Empty} \cup
                  {<<63>> \o join(params, 38) :
                      params \in UNION {[1..n -> ParamInputs] : n \in 0..MaxParams}}}

InitUrl ==
    \E url \in UrlInputs :
        InitWith(0, [Call("input", "ok") EXCEPT !.name = url])

\* parse_otpauth_url applied to the URL held in lastCall.name
ParseOtpauthUrl ==
    /\ lastCall.op = "input"
    /\ lastCall' = [Call("parse_otpauth_url", "ok") EXCEPT
                       !.name = lastCall.name,
                       !.result = <<parse_otpauth_url(lastCall.name)>>]
    /\ UNCHANGED <<keyFile, key, keysGenerated, rows, seq, clock,
                   keyRemoved, sessionKeys, issued>>
    /\ UNCHANGED concVars

NextUrl == ParseOtpauthUrl

SpecUrl == InitUrl /\ [][NextUrl]_vars

(* ==================== properties of the secret codec ================== *)
Base32Alphabet == (65..90) \cup (50..55)

\* C19: clean_secret returns, for every input, the characters of the
\* upper-cased input that are in [A-Z2-7], in their order; cleaning the result
\* again changes nothing; "jbsw y3dp ehpk 3pxp" gives "JBSWY3DPEHPK3PXP".
C19_CleanSecretTotalIdempotent ==
    lastCall.op = "clean_secret" =>
        LET x == lastCall.secret
            y == lastCall.result
            kept == {i \in 1..Len(x) : Upper(x[i]) \in Base32Alphabet}
        IN /\ lastCall.outcome = "ok" /\ ~lastCall.failed
           /\ \A i \in 1..Len(y) : y[i] \in Base32Alphabet
           /\ Len(y) = Cardinality(kept)
           /\ \A i \in kept : y[Cardinality({j \in kept : j <= i})] = Upper(x[i])
           /\ clean_secret(y) = y
           /\ x = ExampleSecret => y = ExampleCleaned

C19_Witness ==
    /\ lastCall.op = "clean_secret"
    /\ lastCall.secret = <<32, 97, 49>>
    /\ lastCall.result = <<65>>

\* C20: a string of at least 8 characters, all in [A-Z2-7], is its own cleaned
\* form and is valid; an input whose cleaned form has fewer than 8 characters
\* is invalid for being too short.
C20_ValidateSecret ==
    lastCall.op = "validate_secret" =>
        LET s == lastCall.secret
            v == lastCall.result[1]
        IN /\ (Len(s) >= 8 /\ \A i \in 1..Len(s) : s[i] \in Base32Alphabet) =>
                (clean_secret(s) = s /\ v.valid)
           /\ Len(clean_secret(s)) < 8 => (~v.valid /\ v.message = "too_short")

C20_Witness ==
    /\ lastCall.op = "validate_secret"
    /\ Len(lastCall.secret) = 8
    /\ \A i \in 1..8 : lastCall.secret[i] \in Base32Alphabet
    /\ lastCall.result[1].valid

(* ===================== properties of the TOTP engine ================== *)
\* The 30-second window of a clock reading.
Window(now) == now \div (30 * SubSecond)

\* C15: two successive calls of generate_token with the same secret at times
\* of the same 30-second window return the same code.
C15_SameWindowSameCode ==
    [][(/\ lastCall.op = "generate_token"
        /\ lastCall'.op = "generate_token"
        /\ lastCall'.secret = lastCall.secret
        /\ Window(lastCall'.at) = Window(lastCall.at)) =>
            lastCall'.result = lastCall.result
      ]_vars

C15_Witness ==
    /\ lastCall.op = "generate_token"
    /\ lastCall.secret = ExampleSecret
    /\ lastCall.at = 30 * SubSecond + 1
    /\ lastCall.result # ERROR

\* The lengths of the Base32 texts that encode a whole number of bytes.
ValidBase32(cleaned) == Len(cleaned) % 8 \in {0, 2, 4, 5, 7}

\* The widget of an account whose secret gives the sentinel shows the invalid
\* state; the widget of any other account shows its code.
WidgetShows(secret, shown, now) ==
    IF ValidBase32(clean_secret(secret))
    THEN /\ shown.status_label = "active"
         /\ Len(shown.token_label) = 7
         /\ shown.token_label[4] = 32
         /\ SubSeq(shown.token_label, 1, 3) \o SubSeq(shown.token_label, 5, 7)
                = generate_token(secret, now)
    ELSE /\ shown.status_label = "error"
         /\ shown.token_label = ERROR

\* C16: generate_token returns, without raising, six ASCII digits or the
\* sentinel, and the sentinel exactly when the cleaned secret is not valid
\* Base32; a refresh updates every widget, the ones after an invalid one
\* included, and an invalid one shows the invalid state.
C16_GenerateTokenNeverRaises ==
    /\ lastCall.op = "generate_token" =>
        LET token == lastCall.result IN
        /\ lastCall.outcome = "ok" /\ ~lastCall.failed
        /\ token = ERROR <=> ~ValidBase32(clean_secret(lastCall.secret))
        /\ token # ERROR =>
            /\ Len(token) = 6
            /\ \A i \in 1..6 : token[i] \in 48..57
    /\ lastCall.op = "refresh_tokens" =>
        /\ lastCall.outcome = "ok" /\ ~lastCall.failed
        /\ Len(lastCall.result) = Len(TotpWidgets)
        /\ \A i \in 1..Len(TotpWidgets) :
              WidgetShows(TotpWidgets[i], lastCall.result[i], lastCall.at)

C16_Witness ==
    /\ lastCall.op = "refresh_tokens"
    /\ lastCall.result[2].token_label = ERROR
    /\ lastCall.result[3].status_label = "active"
    /\ lastCall.result[3].token_label[1] = 48

\* C17: get_time_remaining returns 30 - (floor(t) mod 30), a value from 1 to
\* 30 that is 30 when t is a multiple of 30; a call one second after another
\* returns one less, or 30 after 1.
C17_TimeRemaining ==
    [][/\ lastCall'.op = "get_time_remaining" =>
            LET t == lastCall'.at
                r == lastCall'.result[1]
            IN /\ r \in 1..30
               /\ r = 30 - ((t \div SubSecond) % 30)
               /\ t % (30 * SubSecond) = 0 => r = 30
       /\ (/\ lastCall.op = "get_time_remaining"
           /\ lastCall'.op = "get_time_remaining"
           /\ lastCall'.at = lastCall.at + SubSecond) =>
            lastCall'.result[1] = IF lastCall.result[1] = 1 THEN 30
                                  ELSE lastCall.result[1] - 1
      ]_vars

C17_Witness ==
    /\ lastCall.op = "get_time_remaining"
    /\ lastCall.at = 30 * SubSecond
    /\ lastCall.result = <<30>>

\* C18 as stated: the progress operation returns (30 - remaining)/30, a value
\* from 0 to less than 1.
C18_ProgressFraction ==
    lastCall.op = "get_progress_percentage" =>
        LET p == lastCall.result[1]
            remaining == get_time_remaining(lastCall.at)
        IN /\ p.num * 30 = (30 - remaining) * p.den
           /\ 0 <= p.num /\ p.num < p.den

\* C18 amended: the progress operation returns 100 * (30 - remaining)/30, a
\* value from 0 to less than 100 that is 0 at the start of a window.
C18_ProgressPercentage ==
    lastCall.op = "get_progress_percentage" =>
        LET p == lastCall.result[1]
            remaining == get_time_remaining(lastCall.at)
        IN /\ p.den > 0
           /\ p.num * 30 = 100 * (30 - remaining) * p.den
           /\ 0 <= p.num /\ p.num < 100 * p.den
           /\ (lastCall.at \div SubSecond) % 30 = 0 => p.num = 0

C18_Witness ==
    /\ lastCall.op = "get_progress_percentage"
    /\ lastCall.at = 30 * SubSecond - 1
    /\ lastCall.result[1].num * 30 = 2900 * lastCall.result[1].den

(* ====================== properties of the envelope ==================== *)
\* C13: every row sealed under the key in use, also after restarts with the
\* key file in place, decrypts to the plaintext that was sealed, whatever the
\* time and the IV of its encryption.
C13_DecryptInvertsEncrypt ==
    \A r \in rows :
        (r.secret.ok /\ key # NoKey /\ r.secret.k = key) =>
            /\ Decryptable(key, r.secret)
            /\ \A now \in 0..MaxClock, iv \in 0..MaxIv :
                  decrypt_secret_text(key,
                      encrypt_secret_text(r.secret.k, r.secret.p, now, iv))
                    = [outcome |-> "ok", secret |-> decrypt_secret(key, r.secret)]

C13_Witness ==
    /\ Succeeded("init")
    /\ ~keyRemoved
    /\ \E r \in rows : r.secret.ok /\ r.secret.k = key

\* C14: decrypt_secret of a stored text with one byte altered fails with the
\* invalid-token error, and returns no plaintext other than the one sealed.
C14_TamperDetected ==
    lastCall.op = "decrypt_secret" =>
        /\ lastCall.outcome = "invalid_token"
        /\ lastCall.result \in {<<>>, lastCall.secret}

\* C21: a secret that validate_secret accepts has a cleaned form that decodes
\* as Base32, and generate_token returns a code for it at every time.
C21_ValidSecretGenerates ==
    (lastCall.op = "validate_secret" /\ lastCall.result[1].valid) =>
        /\ ValidBase32(clean_secret(lastCall.secret))
        /\ \A now \in 0..(MaxTime * SubSecond) :
              generate_token(lastCall.secret, now) # ERROR


(* ====================== properties of otpauth URLs ==================== *)
Parsed == lastCall.op = "parse_otpauth_url"

Url == lastCall.name

Record == lastCall.result[1].record

\* The label and the query of a URL that begins with the TOTP prefix and
\* holds '?': the text between the prefix and the first '?', and the text
\* after it.
HasLabelAndQuery(url) ==
    startswith(url, TotpPrefix) /\ 63 \in Range(url)

LabelOf(url) == split_once(remove_leading(url, TotpPrefix), 63).head

QueryOf(url) == split_once(remove_leading(url, TotpPrefix), 63).tail

\* The values of the parameters of the query whose text before the first
\* '=' is param.
ValuesOf(url, param) ==
    LET parts == split(QueryOf(url), 38) IN
    {split_once(parts[k], 61).tail :
        k \in {j \in 1..Len(parts) :
                 61 \in Range(parts[j]) /\ split_once(parts[j], 61).head = param}}

\* C22: a record is returned only for a URL that begins with the TOTP
\* prefix, every other URL is rejected with a reason, and the name of an
\* accepted URL is what follows the leading prefix up to the first '?'.
C22_OnlyLeadingTotpPrefix ==
    Parsed =>
        /\ Record # <<>> =>
              /\ startswith(Url, TotpPrefix)
              /\ Record[1].name = LabelOf(Url)
        /\ ~startswith(Url, TotpPrefix) =>
              /\ Record = <<>>
              /\ lastCall.result[1].message \in
                    {"not_otpauth", "not_totp", "malformed", "no_secret"}

\* C23: parse_otpauth_url returns either no record and an error message or
\* a record with exactly the fields name, secret and issuer; a URL with the
\* prefix and no '?' is malformed, a query without a secret parameter is an
\* error, and a query with a secret and no issuer gives an empty issuer.
C23_ShapeOfResult ==
    /\ Record = <<>> =>
          lastCall.result[1].message \in
              {"not_otpauth", "not_totp", "malformed", "no_secret"}
    /\ Record # <<>> =>
          /\ lastCall.result[1].message = "parsed"
          /\ DOMAIN Record[1] = {"name", "secret", "issuer"}

C23_ParseResult ==
    Parsed =>
        /\ C23_ShapeOfResult
        /\ (startswith(Url, TotpPrefix) /\ 63 \notin Range(Url)) =>
              Record = <<>> /\ lastCall.result[1].message = "malformed"
        /\ (HasLabelAndQuery(Url) /\ ValuesOf(Url, SecretKey) = {}) =>
              Record = <<>>
        /\ (/\ HasLabelAndQuery(Url)
            /\ ValuesOf(Url, SecretKey) # {}
            /\ ValuesOf(Url, IssuerKey) = {}) =>
              Record # <<>> /\ Record[1].issuer = <<>>

\* C24: for an accepted URL made of the TOTP prefix, a label, '?' and a
\* query, the name is the label as written, the secret and the issuer are
\* the text after the first '=' of a secret and an issuer parameter of the
\* query, and the example URL gives Google:user@gmail.com, JBSWY3DPEHPK3PXP
\* and Google.
C24_FieldsAsWritten ==
    (Parsed /\ Record # <<>> /\ HasLabelAndQuery(Url)) =>
        /\ Record[1].name = LabelOf(Url)
        /\ Record[1].secret \in ValuesOf(Url, SecretKey)
        /\ \/ Record[1].issuer \in ValuesOf(Url, IssuerKey)
           \/ ValuesOf(Url, IssuerKey) = {} /\ Record[1].issuer = <<>>
        /\ Url = ExampleUrl =>
              Record[1] = [name |-> SubSeq(ExampleUrl, 16, 36),
                           secret |-> ExampleCleaned,
                           issuer |-> Google]

(* ================= properties of concurrent operations ================ *)
\* The table and counter left by the writes of log, in order, one at a time.
RECURSIVE Replay(_)
Replay(log) ==
    IF log = <<>> THEN [rows |-> {}, seq |-> 0]
    ELSE LET before == Replay(SubSeq(log, 1, Len(log) - 1))
             w == Written(log[Len(log)], before.rows, before.seq)
         IN [rows |-> w.rows, seq |-> w.seq]

\* C25: a listing is the listing of one committed content of the table, so
\* it holds no row of an uncommitted write and no row that is partly old and
\* partly new, and the table always equals the committed writes applied one
\* at a time in commit order.
C25_OperationsAtomic ==
    /\ (lastCall.op = "list" /\ ~lastCall.failed) =>
          \E tbl \in tables : lastCall.result \in ListingsUnder(key, tbl)
    /\ rows = Replay(commitLog).rows
    /\ seq = Replay(commitLog).seq

\* A listing returned while the other thread holds an uncommitted update of
\* a row it lists.
C25_Witness ==
    /\ lastCall.op = "list" /\ ~lastCall.failed /\ Len(lastCall.result) > 0
    /\ \E t \in Threads :
          /\ conns[t].pc = "executed" /\ conns[t].op = "update"
          /\ conns[t].pending[1].rows # rows

\* C26: a step in which add_account, update_account or delete_account
\* raises, and the release of its connection afterwards, leave the table,
\* its counter and the key as they were; the table changes only in the step
\* in which a write returns normally, and the write lock is held only by a
\* connection with an open transaction, so a later call is not shut out.
C26_FailureLeavesTable ==
    [][/\ (\E t \in Threads : conns[t].pc # conns'[t].pc
                                /\ "raised" \in {conns[t].pc, conns'[t].pc}) =>
              rows' = rows /\ seq' = seq /\ key' = key
       /\ (rows' # rows \/ seq' # seq) =>
              \E t \in Threads : /\ conns[t].pc = "executed" /\ conns'[t].pc = "idle"
                                 /\ lastCall'.outcome = "ok" /\ lastCall'.at = t
       /\ dbLock' # 0 => conns'[dbLock'].pc \in {"executed", "raised"}]_vars

\* An add that raised at commit, with its row executed, followed by a second
\* add on the same thread that returned the row's id.
C26_Witness ==
    /\ lastCall.op = "add" /\ lastCall.outcome = "ok" /\ lastCall.at = 1
    /\ conns[1].raised = 1 /\ conns[1].n = 2 /\ conns[2].n = 0
    /\ Cardinality(rows) = 1 /\ dbLock = 0

(* ================ properties of the application's paths =============== *)
\* C27: the secret sealed in every row is in cleaned form and is accepted by
\* validate_secret, and an add that stored a row validated the typed secret
\* and stored its cleaned form.
C27_StoredSecretsCleanValid ==
    /\ \A r \in rows :
          /\ r.secret.p = clean_secret(r.secret.p)
          /\ validate_secret(r.secret.p).valid
    /\ (lastCall.op = "add" /\ lastCall.outcome = "ok") =>
          /\ validate_secret(strip(lastCall.secret)).valid
          /\ \E r \in rows : /\ r.id = lastCall.id
                             /\ r.secret.p = clean_secret(strip(lastCall.secret))

\* A row stored from a typed secret that cleaning changes.
C27_Witness ==
    /\ lastCall.op = "add" /\ lastCall.outcome = "ok"
    /\ lastCall.secret # clean_secret(lastCall.secret)
    /\ \E r \in rows : r.id = lastCall.id

\* C28: the delete path changes the table only by removing exactly the row
\* of the id it found listed; it goes on to the delete only for an id whose
\* row is in the table and decrypts, and an id that is not listed gets the
\* notice and leaves the table as it was.
C28_DeleteOnlyListed ==
    [][/\ (appDelete.pc = "idle" /\ appDelete'.pc = "listed") =>
              /\ rows' = rows
              /\ \E r \in rows : r.id = appDelete'.id /\ Decryptable(key, r.secret)
       /\ (lastCall'.op = "app_delete" /\ lastCall'.outcome = "not_found"
               /\ appDelete' # appDelete) =>
              rows' = rows /\ seq' = seq
       /\ (appDelete.pc = "listed" /\ appDelete'.pc = "idle" /\ rows' # rows) =>
              /\ lastCall'.outcome = "ok"
              /\ rows' = {r \in rows : r.id # appDelete.id}
              /\ \E r \in appDelete.seen : r.id = appDelete.id /\ Decryptable(key, r.secret)
       /\ (appDelete.pc = "listed" /\ appDelete'.pc = "idle"
               /\ lastCall'.outcome = "ok") =>
              rows' = {r \in rows : r.id # appDelete.id}]_vars

\* A listed row removed after another row was added between the listing and
\* the delete, the other row being kept.
C28_Witness ==
    /\ lastCall.op = "app_delete" /\ lastCall.outcome = "ok"
    /\ \E r \in rows : r \notin appDelete.seen
    /\ \A r \in rows : r.id # appDelete.id
    /\ \E r \in appDelete.seen : r.id = appDelete.id

(* ================== properties of the window's threads ================ *)
Dialogs == {src \in Sources : callers[src] = "showing"}

\* C29: at most one add-account dialog is open, and dialog_open is false
\* when no call of add_account is between its test and its finally clause.
C29_AtMostOneDialog ==
    /\ Cardinality(Dialogs) <= 1
    /\ dialog_open => \E src \in Sources : callers[src] = "showing"
    /\ (\A src \in Sources : callers[src] \in {"idle", "scheduled"}) => ~dialog_open

\* C30: once update_thread_running is false the update loop ends, having
\* scheduled at most one more refresh and none after it saw the flag; the
\* loop's steps leave the widgets and their list alone; and a refresh leaves
\* no destroyed widget in token_widgets.
C30_LoopSteps ==
    /\ loop.late <= 1
    /\ loop.pc = "done" => afterQueue' <= afterQueue /\ loop' = loop
    /\ loop' # loop => widgets' = widgets /\ token_widgets' = token_widgets
    /\ (lastCall'.op = "refresh_tokens" /\ afterQueue' < afterQueue /\ root' = "alive") =>
          \A w \in token_widgets : widgets[w] = "destroyed" => w \notin token_widgets'

C30_UpdateLoopEnds ==
    /\ (~update_thread_running) ~> (loop.pc = "done")
    /\ [][C30_LoopSteps]_vars

====
